---- MODULE Spec2Model ----
(***************************************************************************)
(* Model of app/core/DeeplinkManager.ts: the deeplink router (parse), the  *)
(* payment-URI handler (_handleEthereumUrl, _approveTransaction), the      *)
(* network guard (_handleNetworkSwitch), the pending-deeplink slot and the *)
(* shared instance (SharedDeeplinkManager).                                *)
(*                                                                         *)
(* Strings are sequences of tokens: "https://", a host, "/", an action     *)
(* name, ...  startsWith and replace work on these sequences as the        *)
(* JavaScript methods work on characters.  A URL is a record               *)
(*   [body |-> token sequence up to the '?', q |-> the query parameters,   *)
(*    qbad |-> TRUE when the query decoder throws on this query].          *)
(***************************************************************************)
EXTENDS Integers, Sequences, FiniteSets, TLC

\* ------------------------------------------------------------------ bounds
\* Frames the JavaScript call stack has room for: parse calling itself more
\* than MaxStack deep ends in a RangeError.
MaxStack == 3

\* --------------------------------------------------------- string helpers
StartsWith(s, p) == Len(p) <= Len(s) /\ SubSeq(s, 1, Len(p)) = p

\* index of the first occurrence of p in s, 0 when there is none
IndexOf(s, p) ==
    LET hits == {i \in 1..(Len(s) - Len(p) + 1) : SubSeq(s, i, i + Len(p) - 1) = p}
    IN  IF hits = {} THEN 0 ELSE CHOOSE i \in hits : \A j \in hits : i <= j

\* String.prototype.replace with a string pattern: the first occurrence only
Replace(s, p, r) ==
    LET i == IndexOf(s, p)
    IN  IF i = 0 THEN s
        ELSE SubSeq(s, 1, i - 1) \o r \o SubSeq(s, i + Len(p), Len(s))

\* --------------------------------------------------- imported constants
\* constants/deeplinks: PROTOCOLS, as "<scheme>:" tokens with their slashes
PROTOCOLS ==
    [HTTP |-> "http", HTTPS |-> "https", WC |-> "wc", ETHEREUM |-> "ethereum",
     DAPP |-> "dapp", METAMASK |-> "metamask"]

\* ACTIONS of constants/deeplinks (ACTIONS is a reserved word of TLA+)
Actions ==
    [DAPP |-> "dapp", SEND |-> "send", APPROVE |-> "approve", PAYMENT |-> "payment",
     FOCUS |-> "focus", WC |-> "wc", CONNECT |-> "connect", ANDROID_SDK |-> "bind",
     BUY_CRYPTO |-> "buy-crypto", EMPTY |-> ""]

ETH_ACTIONS == [TRANSFER |-> "transfer", APPROVE |-> "approve"]

\* the scheme token a URL of each protocol starts with
SchemeToken(p) ==
    IF p \in {PROTOCOLS.WC, PROTOCOLS.ETHEREUM} THEN <<p, ":">> ELSE <<p, "://">>

\* PREFIXES: the ProtocolTable, branded path prefix -> canonical scheme prefix.
\* An action that is no key of the table reads as undefined (<<>> here, falsy
\* like the empty string of FOCUS and EMPTY).
PREFIXES(action) ==
    CASE action = Actions.DAPP    -> SchemeToken(PROTOCOLS.HTTPS)
      [] action = Actions.SEND    -> SchemeToken(PROTOCOLS.ETHEREUM)
      [] action = Actions.APPROVE -> SchemeToken(PROTOCOLS.ETHEREUM)
      [] action = Actions.PAYMENT -> SchemeToken(PROTOCOLS.ETHEREUM)
      [] OTHER                    -> <<>>

PREFIXES_METAMASK == SchemeToken(PROTOCOLS.METAMASK)

\* AppConstants
MM_UNIVERSAL_LINK_HOST == "metamask.app.link"
MM_DEEP_ITMS_APP_LINK_BODY ==
    SchemeToken(PROTOCOLS.HTTPS) \o <<MM_UNIVERSAL_LINK_HOST, "/", "skAH3BaF99">>

NetworkSwitchErrorType == [missingNetworkId |-> "Missing network id"]

\* ---------------------------------------------------------------- values
\* JavaScript undefined (an absent query parameter, a function without a
\* return value) and null
Undef == "undefined"
Null == "null"
Truthy(v) == v \notin {Undef, Null, ""}

\* The query parameters the code reads.  A URL's q holds Undef for each
\* parameter the query string does not carry.
ParamNames == {"uri", "redirect", "channelId", "pubkey", "address", "uint256", "value"}
NoQuery == [k \in ParamNames |-> Undef]
QueryLength(q) == Cardinality({k \in ParamNames : q[k] # Undef})

MkUrl(body, q) == [body |-> body, q |-> q, qbad |-> FALSE]

\* ------------------------------------------------------------- url-parse
\* new UrlParser(s): protocol, hostname, pathname and href of a token string.
\* url-parse gives the special schemes (http, https, ftp) the pathname "/"
\* when the string has none, and href is put together from the parts.
IsSpecial(protocol) == protocol \in {"http", "https", "ftp"}

UrlParser(url) ==
    LET b == url.body
        hasScheme == Len(b) >= 2 /\ b[2] \in {"://", ":"}
        protocol == IF hasScheme THEN b[1] ELSE ""
        slashes == hasScheme /\ b[2] = "://"
        rest == IF hasScheme THEN SubSeq(b, 3, Len(b)) ELSE b
        hasHost == slashes /\ Len(rest) >= 1 /\ rest[1] # "/"
        hostname == IF hasHost THEN rest[1] ELSE ""
        path0 == IF hasHost THEN SubSeq(rest, 2, Len(rest)) ELSE rest
        pathname == IF path0 = <<>> /\ IsSpecial(protocol) THEN <<"/">> ELSE path0
        origin == IF hasScheme THEN SubSeq(b, 1, 2) ELSE <<>>
        hostpart == IF hasHost THEN <<hostname>> ELSE <<>>
    IN  [protocol |-> protocol, hostname |-> hostname, pathname |-> pathname,
         query |-> url.q, qbad |-> url.qbad,
         href |-> [body |-> origin \o hostpart \o pathname, q |-> url.q,
                   qbad |-> url.qbad]]

\* urlObj.set('protocol', 'https:') followed by urlObj.href
SetProtocolHttps(urlObj) ==
    LET b == urlObj.href.body
    IN  [urlObj.href EXCEPT !.body =
            SchemeToken(PROTOCOLS.HTTPS) \o SubSeq(b, 3, Len(b))]

\* pathname.split('/')[1]: the first path segment; Undef when the pathname has
\* no '/', and the tokens of a longer segment joined by "+"
RECURSIVE JoinTokens(_)
JoinTokens(s) ==
    IF Len(s) = 0 THEN ""
    ELSE IF Len(s) = 1 THEN s[1]
    ELSE s[1] \o "+" \o JoinTokens(Tail(s))

FirstSegment(pathname) ==
    LET i == IndexOf(pathname, <<"/">>)
        after == SubSeq(pathname, i + 1, Len(pathname))
        j == IndexOf(after, <<"/">>)
        seg == IF j = 0 THEN after ELSE SubSeq(after, 1, j - 1)
    IN  IF i = 0 THEN Undef ELSE JoinTokens(seg)

\* the url.replace(...).replace(...) of the legacy dapp/https:// and
\* dapp/http:// forms, done before parsing
NormalizeLegacyDapp(url) ==
    LET r1 == Replace(url.body,
                      <<PROTOCOLS.DAPP, "/">> \o SchemeToken(PROTOCOLS.HTTPS),
                      <<PROTOCOLS.DAPP, "/">>)
        r2 == Replace(r1,
                      <<PROTOCOLS.DAPP, "/">> \o SchemeToken(PROTOCOLS.HTTP),
                      <<PROTOCOLS.DAPP, "/">>)
    IN  [url EXCEPT !.body = r2]

\* qs.parse within its try/catch: the parameters, and whether decoding threw.
\* With an empty query, or when the decoder throws, params keeps its default
\* of empty strings.
DefaultParams == [k \in ParamNames |-> ""]

DecodeParams(urlObj) ==
    IF QueryLength(urlObj.query) = 0 THEN [params |-> DefaultParams, threw |-> FALSE]
    ELSE IF urlObj.qbad THEN [params |-> DefaultParams, threw |-> TRUE]
    ELSE [params |-> urlObj.query, threw |-> FALSE]

\* ---------------------------------------------------------------- events
\* What a call does to its collaborators, in the order it does it.
Ev(name, a, b, c) == [ev |-> name, a |-> a, b |-> b, c |-> c]

EvOnHandled == Ev("onHandled", Undef, Undef, Undef)
\* Alert.alert(title, message)
EvAlert(title, msg) == Ev("Alert.alert", title, msg, Undef)
\* this.dispatch(showAlert({... msg: warn_network_change + networkName}))
EvShowAlert(dispatch, networkName) ==
    Ev("showAlert", "send.warn_network_change", networkName, dispatch)
\* NetworkController.setProviderType(type)
EvSetProviderType(type) == Ev("setProviderType", type, Undef, Undef)
\* this.navigation.navigate(route, params)
EvNavigate(navigation, route, params) == Ev("navigate", route, params, navigation)
EvNotification(title) == Ev("showSimpleNotification", title, Undef, Undef)
EvAddTransaction(txParams, origin) == Ev("addTransaction", txParams, origin, Undef)
EvGoBack == Ev("Minimizer.goBack", Undef, Undef, Undef)
\* a promise has rejected that has no rejection handler and is not awaited
EvUnhandledRejection(kind) == Ev("unhandledRejection", kind, Undef, Undef)
\* this._handleNetworkSwitch(chain_id) is over: it returned, or threw an error
EvGuardOver(chain_id, threw) == Ev("_handleNetworkSwitch", chain_id, threw, Undef)
EvBrowserCallBack(url) == Ev("browserCallBack", url, Undef, Undef)
EvLog(sink, msg) == Ev(sink, msg, Undef, Undef)
\* an asynchronous task is started and not awaited: kind and arguments
EvLaunch(kind, args) == Ev("launch", kind, args, Undef)
\* InteractionManager.runAfterInteractions(continuation)
EvRunAfterInteractions(url, callback) == Ev("runAfterInteractions", url, callback, Undef)

\* a started task has settled with this outcome
EvSettled(kind, outcome) == Ev("settled", kind, outcome, Undef)

IndicesOf(events, name) == {i \in 1..Len(events) : events[i].ev = name}
Count(events, name) == Cardinality(IndicesOf(events, name))

\* -------------------------------------------------------- util/networks
\* getNetworkTypeById: the network type of a chain id; Undef stands for the
\* error it throws when no network has that id.
getNetworkTypeById(chain_id) ==
    CASE chain_id = "1" -> "mainnet"
      [] chain_id = "5" -> "goerli"
      [] OTHER          -> Undef

NetworkTypes == {"mainnet", "goerli"}

\* handleNetworkSwitch(switchToChainId) of util/networks, the guard proper:
\* nothing for an absent chain id; the missingNetworkId error for an id that
\* resolves to no network; nothing when the id is the active network's; and
\* otherwise one provider switch, returning the new network's name.
handleNetworkSwitch(switchToChainId, net) ==
    LET type == getNetworkTypeById(switchToChainId)
    IN  IF ~Truthy(switchToChainId)
        THEN [threw |-> "", name |-> Undef, log |-> <<>>, net |-> net]
        ELSE IF type = Undef
        THEN [threw |-> NetworkSwitchErrorType.missingNetworkId, name |-> Undef,
              log |-> <<>>, net |-> net]
        ELSE IF type = net
        THEN [threw |-> "", name |-> Undef, log |-> <<>>, net |-> net]
        ELSE [threw |-> "", name |-> type, log |-> <<EvSetProviderType(type)>>,
              net |-> type]

\* DeeplinkManager._handleNetworkSwitch.  The last event it logs records that
\* the call is over, and the error it ended with ("" when it returned).
_handleNetworkSwitch(switchToChainId, st) ==
    LET r == handleNetworkSwitch(switchToChainId, st.net)
    IN  IF r.threw # ""
        THEN [threw |-> r.threw,
              log |-> r.log \o <<EvGuardOver(switchToChainId, r.threw)>>, net |-> r.net]
        ELSE IF ~Truthy(r.name)
        THEN [threw |-> "",
              log |-> r.log \o <<EvGuardOver(switchToChainId, "")>>, net |-> r.net]
        ELSE [threw |-> "",
              log |-> r.log \o <<EvShowAlert(st.dispatch, r.name),
                                 EvGuardOver(switchToChainId, "")>>,
              net |-> r.net]

\* ----------------------------------------------------------- JS numbers
\* Number(v) for the amounts of the model: kind "nan", "int" or "frac", and
\* the value of an integer.  Number(undefined) is NaN and Number('') is 0.
NumberOf(v) ==
    CASE v = "12"   -> [kind |-> "int", val |-> 12]
      [] v = "255"  -> [kind |-> "int", val |-> 255]
      [] v = ""     -> [kind |-> "int", val |-> 0]
      [] v = "12.5" -> [kind |-> "frac", val |-> 0]
      [] OTHER      -> [kind |-> "nan", val |-> 0]

HexDigit(d) == SubSeq(<<"0", "1", "2", "3", "4", "5", "6", "7", "8", "9",
                        "a", "b", "c", "d", "e", "f">>, d + 1, d + 1)[1]

\* n.toString(16)
RECURSIVE ToString16(_)
ToString16(n) ==
    IF n < 16 THEN HexDigit(n) ELSE ToString16(n \div 16) \o HexDigit(n % 16)

\* -------------------------------------------------------- eth-url-parser
\* parse(url): ethereum:<target_address>[@<chain_id>][/<function_name>] and
\* the query as parameters; ok is FALSE where the parser throws (no
\* ethereum: scheme, or a target that is no address).
EthAddresses == {"0xRECIPIENT", "0xTOKEN"}

EthParse(url) ==
    LET b == url.body
        wellFormed == /\ StartsWith(b, SchemeToken(PROTOCOLS.ETHEREUM))
                      /\ Len(b) >= 3
                      /\ b[3] \in EthAddresses
        rest == SubSeq(b, 4, Len(b))
        hasChain == Len(rest) >= 2 /\ rest[1] = "@" /\ rest[2] # "/"
        afterChain == IF hasChain THEN SubSeq(rest, 3, Len(rest)) ELSE rest
        hasFn == Len(afterChain) >= 2 /\ afterChain[1] = "/"
    IN  IF ~wellFormed THEN [ok |-> FALSE]
        ELSE [ok |-> TRUE,
              target_address |-> b[3],
              chain_id |-> IF hasChain THEN rest[2] ELSE Undef,
              function_name |-> IF hasFn THEN afterChain[2] ELSE Undef,
              parameters |-> url.q]

\* ----------------------------------------------------------- the payment handler
\* generateApproveData({spender, value})
generateApproveData(spender, value) == [method |-> "approve", spender |-> spender, value |-> value]

\* _approveTransaction up to its await: the provider switch for a chain id,
\* the validation of uint256, and the call of getAddress it then awaits.
\* threw is the message of the error thrown, "" when none.
ApproveSetProvider(chain_id) ==
    IF Truthy(chain_id) THEN <<EvSetProviderType(getNetworkTypeById(chain_id))>> ELSE <<>>

\* ApproveValidate without its Number.isInteger test
ApproveValidate_NoIntegerTest(uint256) ==
    IF NumberOf(uint256).kind = "nan" THEN "The parameter uint256 should be a number"
    ELSE ""

ApproveValidate(uint256) ==
    LET uint256Number == NumberOf(uint256)
    IN  IF uint256Number.kind = "nan" THEN "The parameter uint256 should be a number"
        ELSE IF uint256Number.kind # "int" THEN "The parameter uint256 should be an integer"
        ELSE ""

_approveTransactionSync(ethUrl, origin, st) ==
    LET chain_id == ethUrl.chain_id
        unknown == Truthy(chain_id) /\ getNetworkTypeById(chain_id) = Undef
        net1 == IF Truthy(chain_id) /\ ~unknown THEN getNetworkTypeById(chain_id)
                ELSE st.net
        bad == ApproveValidate(ethUrl.parameters.uint256)
        value == ToString16(NumberOf(ethUrl.parameters.uint256).val)
        address == IF Truthy(ethUrl.parameters.address)
                   THEN ethUrl.parameters.address ELSE ""
    IN  IF unknown
        THEN [threw |-> "Unknown network id", log |-> <<>>, net |-> st.net]
        ELSE IF bad # ""
        THEN [threw |-> bad, log |-> ApproveSetProvider(chain_id), net |-> net1]
        ELSE [threw |-> "",
              log |-> ApproveSetProvider(chain_id) \o
                      <<EvLaunch("getAddress",
                                 [address |-> address, chain_id |-> chain_id,
                                  target_address |-> ethUrl.target_address,
                                  value |-> value, origin |-> origin])>>,
              net |-> net1]

\* getAddress(address, chain_id) of util/address: the address itself when it
\* is a valid one, what the name lookup gives for a name, and null otherwise
getAddressResults(address) ==
    CASE address = "0xSPENDER"   -> {"0xSPENDER"}
      [] address = "spender.eth" -> {"0xRESOLVED", Null}
      [] OTHER                   -> {Null}

\* the invalid-recipient branch of _approveTransaction
ApproveInvalidRecipient(spenderAddress, st) ==
    IF ~Truthy(spenderAddress)
    THEN <<EvNotification("transaction.invalid_recipient"),
           EvNavigate(st.navigation, "WalletView", Undef)>>
    ELSE <<>>

ApproveTxParams(a, spenderAddress, selectedAddress) ==
    [to |-> a.target_address, from |-> selectedAddress, value |-> "0x0",
     data |-> generateApproveData(spenderAddress, a.value)]

\* _approveTransaction returning after the invalid-recipient notification
_approveTransactionResume_Abort(a, spenderAddress, st) ==
    IF ~Truthy(spenderAddress) THEN ApproveInvalidRecipient(spenderAddress, st)
    ELSE <<EvAddTransaction(ApproveTxParams(a, spenderAddress, st.selectedAddress),
                            a.origin)>>

\* _approveTransaction from the point getAddress has resolved
_approveTransactionResume(a, spenderAddress, st) ==
    ApproveInvalidRecipient(spenderAddress, st) \o
    <<EvAddTransaction(ApproveTxParams(a, spenderAddress, st.selectedAddress), a.origin)>>

\* the catch block of _handleEthereumUrl
EthCatch(message, chain_id) ==
    <<EvAlert("send.network_not_found_title",
              IF message = NetworkSwitchErrorType.missingNetworkId
              THEN <<"send.network_missing_id">>
              ELSE <<"send.network_not_found_description", chain_id>>)>>

\* the switch with a default branch that does not look at the value
EthDispatch_NoValueTest(ethUrl, url, origin, st) ==
    LET txMeta == [ethUrl |-> ethUrl, source |-> url]
    IN  CASE ethUrl.function_name = ETH_ACTIONS.TRANSFER ->
               [threw |-> "",
                log |-> <<EvNavigate(st.navigation, "SendView",
                                     [screen |-> "Send", txMeta |-> txMeta,
                                      action |-> "send-token"])>>,
                net |-> st.net]
          [] ethUrl.function_name = ETH_ACTIONS.APPROVE ->
               _approveTransactionSync(ethUrl, origin, st)
          [] OTHER ->
               [threw |-> "",
                log |-> <<EvNavigate(st.navigation, "SendFlowView",
                                     [screen |-> "SendTo", txMeta |-> txMeta,
                                      action |-> Undef])>>,
                net |-> st.net]

\* the switch on function_name of _handleEthereumUrl, after the guard
EthDispatch(ethUrl, url, origin, st) ==
    LET txMeta == [ethUrl |-> ethUrl, source |-> url]
    IN  CASE ethUrl.function_name = ETH_ACTIONS.TRANSFER ->
               [threw |-> "",
                log |-> <<EvNavigate(st.navigation, "SendView",
                                     [screen |-> "Send", txMeta |-> txMeta,
                                      action |-> "send-token"])>>,
                net |-> st.net]
          [] ethUrl.function_name = ETH_ACTIONS.APPROVE ->
               _approveTransactionSync(ethUrl, origin, st)
          [] OTHER ->
               [threw |-> "",
                log |-> IF Truthy(ethUrl.parameters.value)
                        THEN <<EvNavigate(st.navigation, "SendView",
                                          [screen |-> "Send", txMeta |-> txMeta,
                                           action |-> "send-eth"])>>
                        ELSE <<EvNavigate(st.navigation, "SendFlowView",
                                          [screen |-> "SendTo", txMeta |-> txMeta,
                                           action |-> Undef])>>,
                net |-> st.net]

\* _handleEthereumUrl up to its first await.  An error thrown inside
\* _approveTransaction rejects its promise, and the catch block runs when the
\* await resumes: that is the "awaitRejected" task.
EthGuarded(ethUrl, url, origin, st) ==
    LET g == _handleNetworkSwitch(ethUrl.chain_id, st)
        d == EthDispatch(ethUrl, url, origin, [st EXCEPT !.net = g.net])
        isApprove == ethUrl.function_name = ETH_ACTIONS.APPROVE
    IN  IF g.threw # ""
        THEN [log |-> g.log \o EthCatch(g.threw, ethUrl.chain_id), net |-> g.net]
        ELSE IF d.threw # ""
        THEN [log |-> g.log \o d.log \o
                      <<EvLaunch("awaitRejected",
                                 [message |-> d.threw, chain_id |-> ethUrl.chain_id])>>,
              net |-> d.net]
        ELSE [log |-> g.log \o d.log, net |-> d.net]

\* _handleEthereumUrl decoding inside its second try: the decode error is
\* caught by the second catch block as well
_handleEthereumUrl_OneTry(url, origin, st) ==
    LET ethUrl == EthParse(url)
    IN  IF ~ethUrl.ok
        THEN [log |-> <<EvAlert("deeplink.invalid", <<"parse error">>)>>
                      \o EthCatch("parse error", Undef),
              net |-> st.net]
        ELSE EthGuarded(ethUrl, url, origin, st)

_handleEthereumUrl(url, origin, st) ==
    LET ethUrl == EthParse(url)
    IN  IF ~ethUrl.ok
        THEN [log |-> <<EvAlert("deeplink.invalid", <<"parse error">>)>>, net |-> st.net]
        ELSE EthGuarded(ethUrl, url, origin, st)

\* ------------------------------------------------------------ the router
\* const handled = () => (onHandled ? onHandled() : false)
handled(onHandled) == IF onHandled THEN <<EvOnHandled>> ELSE <<>>

\* the recursive call given the caller's options whole
LoopBackOptions_PassAll(opts) == opts

\* the options parse hands to its own recursive call: { browserCallBack, origin }
LoopBackOptions(opts) == [opts EXCEPT !.onHandled = FALSE]

\* _handleBrowserUrl: the navigation is left to InteractionManager
_handleBrowserUrl(url, callback) == <<EvRunAfterInteractions(url, callback)>>

_handleBuyCrypto(st) == <<EvNavigate(st.navigation, "Routes.RAMP.BUY", Undef)>>

DEEP_LINK_BASE == SchemeToken(PROTOCOLS.HTTPS) \o <<MM_UNIVERSAL_LINK_HOST>>

\* const wcURL = params?.uri || urlObj.href.  The uri parameter is a string of
\* one token; wcURL is kept in the shape of href.
AsUrl(v) == MkUrl(<<v>>, NoQuery)
wcURL(params, urlObj) == IF Truthy(params.uri) THEN AsUrl(params.uri) ELSE urlObj.href
\* a string is truthy unless it is empty
TruthyUrl(u) == u.body # <<>> \/ QueryLength(u.q) > 0

\* sdkConnect.bindAndroidSDK().catch(...)
BindAndroidSDK == <<EvLaunch("bindAndroidSDK", Undef)>>

\* WC2Manager.getInstance().then(instance => instance.connect({...})).catch(...)
WcConnect(wcUri, origin, params) ==
    <<EvLaunch("wcConnect",
               [wcUri |-> wcUri, origin |-> origin, redirectUrl |-> params.redirect])>>

\* the connect action testing the channel id before the redirect
ConnectAction_ChannelFirst(params, origin, url, context) ==
    IF Truthy(params.channelId)
    THEN <<EvLaunch("handleDeeplink",
                    [channelId |-> params.channelId, origin |-> origin,
                     context |-> context, url |-> url,
                     otherPublicKey |-> params.pubkey])>>
    ELSE IF Truthy(params.redirect) THEN <<EvGoBack>>
    ELSE <<>>

\* the body of the connect action, shared in shape by the universal link and
\* the metamask:// scheme, which differ in the context they pass
ConnectAction(params, origin, url, context) ==
    IF Truthy(params.redirect) THEN <<EvGoBack>>
    ELSE IF Truthy(params.channelId)
    THEN <<EvLaunch("handleDeeplink",
                    [channelId |-> params.channelId, origin |-> origin,
                     context |-> context, url |-> url,
                     otherPublicKey |-> params.pubkey])>>
    ELSE <<>>

\* the universal link itself or the Apple store deep link: not opened
IsIgnoredLink(action, href) ==
    \/ /\ ~Truthy(action)
       /\ \/ (href.body = DEEP_LINK_BASE \o <<"/">> /\ QueryLength(href.q) = 0)
          \/ (href.body = DEEP_LINK_BASE /\ QueryLength(href.q) = 0)
    \/ (href.body = MM_DEEP_ITMS_APP_LINK_BODY /\ QueryLength(href.q) = 0)

\* urlObj.href.replace(`${DEEP_LINK_BASE}/${action}/`, PREFIXES[action])
DeeplinkUrl(href, action) ==
    [href EXCEPT !.body =
        Replace(href.body, DEEP_LINK_BASE \o <<"/", action, "/">>, PREFIXES(action))]

\* `https://${urlObj.href.replace(`${DEEP_LINK_BASE}/`, '')}`
StripBase(href) ==
    [href EXCEPT !.body =
        SchemeToken(PROTOCOLS.HTTPS) \o Replace(href.body, DEEP_LINK_BASE \o <<"/">>, <<>>)]

\* what one call of parse gives: the value returned ("true", "false",
\* Undef for a bare return, "RangeError" when the call stack is exhausted),
\* the events in order, the active network afterwards, and how many times
\* parse called itself
Result(ret, log, net, depth) == [ret |-> ret, log |-> log, net |-> net, depth |-> depth]

\* the metamask:// scheme without its buy-crypto branch
MetamaskScheme_NoBuyCrypto(url, params, urlObj, opts, st) ==
    LET b == url.body
        P == PREFIXES_METAMASK
    IN  IF StartsWith(b, P \o <<Actions.ANDROID_SDK>>)
        THEN Result(Undef, BindAndroidSDK, st.net, 0)
        ELSE IF StartsWith(b, P \o <<Actions.CONNECT>>)
        THEN Result("true", ConnectAction(params, opts.origin, url, "deeplink_scheme"),
                    st.net, 0)
        ELSE IF \/ StartsWith(b, P \o <<Actions.WC>>)
                \/ StartsWith(b, P \o <<"/", Actions.WC>>)
        THEN LET fixedUrl ==
                    IF StartsWith(b, P \o <<"/", Actions.WC>>)
                    THEN [url EXCEPT !.body =
                             Replace(b, P \o <<"/", Actions.WC>>, <<Actions.WC>>)]
                    ELSE wcURL(params, urlObj)
             IN  Result("true", WcConnect(fixedUrl, opts.origin, params), st.net, 0)
        ELSE Result("true", <<>>, st.net, 0)

\* case PROTOCOLS.METAMASK
MetamaskScheme(url, params, urlObj, opts, st) ==
    LET b == url.body
        P == PREFIXES_METAMASK
    IN  IF StartsWith(b, P \o <<Actions.ANDROID_SDK>>)
        THEN Result(Undef, BindAndroidSDK, st.net, 0)
        ELSE IF StartsWith(b, P \o <<Actions.CONNECT>>)
        THEN Result("true", ConnectAction(params, opts.origin, url, "deeplink_scheme"),
                    st.net, 0)
        ELSE IF \/ StartsWith(b, P \o <<Actions.WC>>)
                \/ StartsWith(b, P \o <<"/", Actions.WC>>)
        THEN LET fixedUrl ==
                    IF StartsWith(b, P \o <<"/", Actions.WC>>)
                    THEN [url EXCEPT !.body =
                             Replace(b, P \o <<"/", Actions.WC>>, <<Actions.WC>>)]
                    ELSE wcURL(params, urlObj)
             IN  Result("true", WcConnect(fixedUrl, opts.origin, params), st.net, 0)
        ELSE IF StartsWith(b, P \o <<Actions.BUY_CRYPTO>>)
        THEN Result("true", _handleBuyCrypto(st), st.net, 0)
        ELSE Result("true", <<>>, st.net, 0)

\* the value parse returns after its recursive call has come back
AfterLoopBack(inner) == IF inner.ret = "RangeError" THEN "RangeError" ELSE "true"

\* if (urlObj.hostname === MM_UNIVERSAL_LINK_HOST) { ... }: the branches on the
\* action, in the order of the code.  loop is what the recursive call
\* this.parse(deeplinkUrl, { browserCallBack, origin }) gives.
UniversalLink(action, url, params, urlObj, opts, st, loop) ==
    IF action = Actions.ANDROID_SDK
    THEN Result(Undef, BindAndroidSDK, st.net, 0)
    ELSE IF action = Actions.CONNECT
    THEN Result("true", ConnectAction(params, opts.origin, url, "deeplink_universal"),
                st.net, 0)
    ELSE IF action = Actions.WC /\ TruthyUrl(wcURL(params, urlObj))
    THEN Result(Undef, WcConnect(wcURL(params, urlObj), opts.origin, params), st.net, 0)
    ELSE IF action = Actions.WC
    THEN Result(Undef, <<>>, st.net, 0)
    ELSE IF PREFIXES(action) # <<>>
    THEN Result(AfterLoopBack(loop), loop.log, loop.net, loop.depth + 1)
    ELSE IF action = Actions.BUY_CRYPTO
    THEN Result("true", _handleBuyCrypto(st), st.net, 0)
    ELSE IF IsIgnoredLink(action, urlObj.href)
    THEN Result(Undef, <<>>, st.net, 0)
    ELSE IF StartsWith(urlObj.href.body, DEEP_LINK_BASE \o <<"/">>)
    THEN Result(Undef, _handleBrowserUrl(StripBase(urlObj.href), opts.browserCallBack),
                st.net, 0)
    ELSE Result("true", _handleBrowserUrl(urlObj.href, opts.browserCallBack), st.net, 0)

\* DeeplinkManager.parse.  fuel is the room left on the call stack: with none
\* left the call throws RangeError, which no frame of parse catches.
RECURSIVE parse(_, _, _, _)
parse(url, opts, st, fuel) ==
    IF fuel = 0 THEN Result("RangeError", <<>>, st.net, 0)
    ELSE
    LET urlObj == UrlParser(NormalizeLegacyDapp(url))
        dec == DecodeParams(urlObj)
        params == dec.params
        pre == IF dec.threw THEN <<EvAlert("deeplink.invalid", <<"query">>)>> ELSE <<>>
        protocol == urlObj.protocol
        own == pre \o handled(opts.onHandled)
        With(r) == [r EXCEPT !.log = own \o r.log]
    IN  IF protocol \in {PROTOCOLS.HTTP, PROTOCOLS.HTTPS}
        THEN IF urlObj.hostname = MM_UNIVERSAL_LINK_HOST
             THEN LET action == FirstSegment(urlObj.pathname)
                      loop == parse(DeeplinkUrl(urlObj.href, action),
                                    LoopBackOptions(opts), st, fuel - 1)
                  IN  With(UniversalLink(action, url, params, urlObj, opts, st, loop))
             ELSE With(Result("true", _handleBrowserUrl(urlObj.href, opts.browserCallBack),
                              st.net, 0))
        ELSE IF protocol = PROTOCOLS.WC
        THEN With(Result("true", WcConnect(wcURL(params, urlObj), opts.origin, params),
                         st.net, 0))
        ELSE IF protocol = PROTOCOLS.ETHEREUM
        THEN LET h == _handleEthereumUrl(url, opts.origin, st)
             IN  With(Result("true", h.log, h.net, 0))
        ELSE IF protocol = PROTOCOLS.DAPP
        THEN With(Result("true",
                         _handleBrowserUrl(SetProtocolHttps(urlObj), opts.browserCallBack),
                         st.net, 0))
        ELSE IF protocol = PROTOCOLS.METAMASK
        THEN With(MetamaskScheme(url, params, urlObj, opts, st))
        ELSE Result("false", pre, st.net, 0)

\* ---------------------------------------------------------------- inputs
Q(uri, redirect, channelId, pubkey) ==
    [NoQuery EXCEPT !.uri = uri, !.redirect = redirect,
                    !.channelId = channelId, !.pubkey = pubkey]
EQ(address, uint256, value) ==
    [NoQuery EXCEPT !.address = address, !.uint256 = uint256, !.value = value]

\* queries of the pairing links: any of uri, redirect and channelId, a pubkey
\* only next to a channel id
PairQueries ==
    {Q(u, r, c, k) : u \in {Undef, "wc:session"}, r \in {Undef, "true"},
                     c \in {Undef, "abc"}, k \in {Undef, "xyz"}}
    \ {Q(u, r, Undef, "xyz") : u \in {Undef, "wc:session"}, r \in {Undef, "true"}}
FewQueries == {NoQuery, Q(Undef, Undef, "abc", Undef)}
EthQueries ==
    {EQ(a, n, v) : a \in {Undef, "0xSPENDER", "spender.eth"},
                   n \in {Undef, "12", "255", "12.5", "abc"}, v \in {Undef, "1"}}

Http(p) == SchemeToken(PROTOCOLS.HTTP) \o p
Https(p) == SchemeToken(PROTOCOLS.HTTPS) \o p
UL == MM_UNIVERSAL_LINK_HOST

PathsOf(a) == {<<"/", a>>, <<"/", a, "/">>, <<"/", a, "/", "x">>}
PairActions == {Actions.CONNECT, Actions.WC}
OtherActions == {Actions.ANDROID_SDK, Actions.DAPP, Actions.SEND, Actions.BUY_CRYPTO,
                 Actions.FOCUS, "foo", "skAH3BaF99"}

\* payment URIs after the scheme: target, chain id, function name
EthTails ==
    {<<"0xRECIPIENT">> \o c \o f :
        c \in {<<>>, <<"@", "1">>, <<"@", "5">>, <<"@", "999">>},
        f \in {<<>>, <<"/", "transfer">>, <<"/", "approve">>, <<"/", "foo">>}}
    \cup {<<"garbage">>}
LoopEthTails ==
    {<<"0xRECIPIENT", "@", "5">> \o f : f \in {<<"/", "transfer">>, <<"/", "approve">>}}

PairBodies ==
    {s \o <<UL>> \o p : s \in {SchemeToken(PROTOCOLS.HTTP), SchemeToken(PROTOCOLS.HTTPS)},
                         p \in UNION {PathsOf(a) : a \in PairActions}}
    \cup {SchemeToken(PROTOCOLS.WC) \o <<"session">>}
    \cup {PREFIXES_METAMASK \o p : p \in {<<Actions.CONNECT>>, <<Actions.WC>>,
                                            <<"/", Actions.WC>>}}
OtherBodies ==
    {s \o <<UL>> \o p : s \in {SchemeToken(PROTOCOLS.HTTP), SchemeToken(PROTOCOLS.HTTPS)},
                         p \in {<<>>, <<"/">>} \cup UNION {PathsOf(a) : a \in OtherActions}}
    \cup {Https(<<UL, "/", Actions.DAPP, "/", UL, "/", Actions.DAPP, "/", "example.com">>),
          Https(<<UL, "/", Actions.DAPP, "/", "https", "://", "example.com">>),
          Https(<<UL, "/", Actions.DAPP, "/", "example.com">>),
          Https(<<"example.com">>), Http(<<"example.com", "/", "foo">>)}
    \cup {<<PROTOCOLS.DAPP, "://", "example.com">>,
          <<PROTOCOLS.DAPP, "://", "example.com", "/", "x">>}
    \cup {PREFIXES_METAMASK \o p : p \in {<<Actions.ANDROID_SDK>>, <<Actions.BUY_CRYPTO>>,
                                            <<"foo">>}}
    \cup {<<"ftp", "://", "example.com">>, <<"mailto", ":", "x">>, <<"example.com">>}
EthBodies ==
    {SchemeToken(PROTOCOLS.ETHEREUM) \o t : t \in EthTails}
    \cup {Https(<<UL, "/", Actions.SEND, "/">> \o t) : t \in LoopEthTails}

\* the URLs handed to parse
Urls ==
    {MkUrl(b, q) : b \in PairBodies, q \in PairQueries}
    \cup {MkUrl(b, q) : b \in OtherBodies, q \in FewQueries}
    \cup {MkUrl(b, q) : b \in EthBodies, q \in EthQueries}
    \cup {[MkUrl(b, Q(Undef, Undef, "abc", "xyz")) EXCEPT !.qbad = TRUE] :
            b \in {Https(<<UL, "/", Actions.CONNECT>>), <<"ftp", "://", "example.com">>}}

Options == [browserCallBack : BOOLEAN, origin : {"qr-code"}, onHandled : BOOLEAN]

\* the URLs, staged values and handles of the specification of the shared
\* instance and its pending slot
StoreUrls ==
    {MkUrl(Https(<<UL, "/", Actions.BUY_CRYPTO>>), NoQuery),
     MkUrl(<<PROTOCOLS.DAPP, "://", "example.com">>, NoQuery),
     MkUrl(Https(<<UL, "/", Actions.SEND, "/", "0xRECIPIENT", "@", "5", "/", "transfer">>),
           NoQuery),
     MkUrl(SchemeToken(PROTOCOLS.ETHEREUM) \o <<"0xRECIPIENT", "@", "5", "/", "approve">>,
           EQ(Undef, "12", Undef))}
StoreOptions == [browserCallBack : {FALSE}, origin : {"qr-code"}, onHandled : {TRUE}]
\* the strings staged in the pending slot
StagedUrls == {"dapp://example.com", "ethereum:0xRECIPIENT@5/approve?uint256=12"}
Handles == {"h1", "h2"}
Accounts == {"0xACCOUNT1", "0xACCOUNT2"}

\* ----------------------------------------------------------------- state
VARIABLES
    instance,         \* the module's `let instance`: NoInstance or the DeeplinkManager
    activeNet,        \* the network the provider is on
    selectedAddress,  \* PreferencesController.state.selectedAddress
    call,             \* the parse call under observation: NoCall, or its url,
                      \* options, return value, recursion depth, network before
    log,              \* the events since that call began, in order
    tasks,            \* asynchronous tasks started and not yet settled
    queue,            \* continuations InteractionManager holds
    op                \* the latest operation on SharedDeeplinkManager

vars == <<instance, activeNet, selectedAddress, call, log, tasks, queue, op>>

NoInstance == [made |-> FALSE]
NoCall == [made |-> FALSE]
\* name, arguments (strings) and result (a string) of an operation
Op(name, arg, arg2, res) == [name |-> name, arg |-> arg, arg2 |-> arg2, res |-> res]
NoOp == Op("none", Undef, Undef, Undef)

\* constructor({ navigation, dispatch })
DeeplinkManager(navigation, dispatch) ==
    [made |-> TRUE, navigation |-> navigation, dispatch |-> dispatch,
     pendingDeeplink |-> Null]

Init ==
    /\ instance = NoInstance
    /\ activeNet \in NetworkTypes
    /\ selectedAddress \in Accounts
    /\ call = NoCall
    /\ log = <<>>
    /\ tasks = <<>>
    /\ queue = <<>>
    /\ op = NoOp

\* init without its `if (instance) return`
init_Reconstruct(inst, navigation, dispatch) == DeeplinkManager(navigation, dispatch)

\* the instance after SharedDeeplinkManager.init({ navigation, dispatch })
init(inst, navigation, dispatch) ==
    IF inst.made THEN inst ELSE DeeplinkManager(navigation, dispatch)

SharedInit(navigation, dispatch) ==
    /\ instance' = init(instance, navigation, dispatch)
    /\ op' = Op("init", navigation, dispatch, Undef)
    /\ UNCHANGED <<activeNet, selectedAddress, call, log, tasks, queue>>

\* setDeeplink keeping a value already staged
setDeeplink_KeepFirst(inst, url) ==
    IF inst.pendingDeeplink = Null THEN [inst EXCEPT !.pendingDeeplink = url] ELSE inst

\* setDeeplink = (url) => (this.pendingDeeplink = url)
setDeeplink(inst, url) == [inst EXCEPT !.pendingDeeplink = url]
\* getPendingDeeplink = () => this.pendingDeeplink
getPendingDeeplink(inst) == inst.pendingDeeplink
\* expireDeeplink = () => (this.pendingDeeplink = null)
expireDeeplink(inst) == [inst EXCEPT !.pendingDeeplink = Null]

\* The operations of SharedDeeplinkManager go through `instance`; before init
\* they throw a TypeError and change nothing, so they are enabled after it.
SetDeeplink(url) ==
    /\ instance.made
    /\ instance' = setDeeplink(instance, url)
    /\ op' = Op("setDeeplink", url, Undef, url)
    /\ UNCHANGED <<activeNet, selectedAddress, call, log, tasks, queue>>

GetPendingDeeplink ==
    /\ instance.made
    /\ op' = Op("getPendingDeeplink", Undef, Undef, getPendingDeeplink(instance))
    /\ UNCHANGED <<instance, activeNet, selectedAddress, call, log, tasks, queue>>

ExpireDeeplink ==
    /\ instance.made
    /\ instance' = expireDeeplink(instance)
    /\ op' = Op("expireDeeplink", Undef, Undef, Null)
    /\ UNCHANGED <<activeNet, selectedAddress, call, log, tasks, queue>>

\* what the handlers read of the instance and the engine
Env == [net |-> activeNet, navigation |-> instance.navigation,
        dispatch |-> instance.dispatch, selectedAddress |-> selectedAddress]

\* the promises a run of events leaves behind: those of the launches, and the
\* one TransactionController.addTransaction returns, which nothing awaits
Launched(events) ==
    LET l == SelectSeq(events, LAMBDA e : e.ev \in {"launch", "addTransaction"})
    IN  [i \in 1..Len(l) |->
            IF l[i].ev = "launch" THEN [kind |-> l[i].a, args |-> l[i].b]
            ELSE [kind |-> "addTransaction", args |-> l[i].a]]
Enqueued(events) ==
    LET l == SelectSeq(events, LAMBDA e : e.ev = "runAfterInteractions")
    IN  [i \in 1..Len(l) |-> [url |-> l[i].a, callback |-> l[i].b]]

\* parse consuming the staged deeplink
InstanceAfterParse_Expire(inst, url) == expireDeeplink(inst)

\* the instance after a call of parse: parse assigns no field of it
InstanceAfterParse(inst, url) == inst

\* SharedDeeplinkManager.parse(url, args)
Parse(url, opts) ==
    /\ instance.made
    /\ LET r == parse(url, opts, Env, MaxStack)
       IN  /\ call' = [made |-> TRUE, url |-> url, opts |-> opts, ret |-> r.ret,
                       depth |-> r.depth, net |-> activeNet]
           /\ log' = log \o r.log
           /\ activeNet' = r.net
           /\ tasks' = tasks \o Launched(r.log)
           /\ queue' = queue \o Enqueued(r.log)
           /\ op' = Op("parse", Undef, Undef, r.ret)
    /\ instance' = InstanceAfterParse(instance, url)
    /\ UNCHANGED selectedAddress

\* how a task can end: the pairing calls and the submission of a transaction
\* resolve or reject, the rejected await resumes, getAddress resolves to an
\* address or to null
Outcomes(task) ==
    CASE task.kind = "getAddress"    -> getAddressResults(task.args.address)
      [] task.kind = "awaitRejected" -> {"resume"}
      [] OTHER                       -> {"resolved", "rejected"}

\* the .catch handlers telling the user of the failure
CatchHandler_Alert(task) ==
    <<EvLog("Logger.error", "DeepLinkManager failed to connect"),
      EvAlert("deeplink.invalid", <<"DeepLinkManager failed to connect">>)>>

\* the .catch handlers of parse: Logger.error for the SDK calls,
\* console.warn for the WalletConnect call
CatchHandler(task) ==
    IF task.kind = "wcConnect"
    THEN <<EvLog("console.warn", "DeepLinkManager failed to connect")>>
    ELSE <<EvLog("Logger.error", "DeepLinkManager failed to connect")>>

TaskEvents(task, outcome, st) ==
    CASE task.kind = "getAddress" -> _approveTransactionResume(task.args, outcome, st)
      [] task.kind = "awaitRejected" -> EthCatch(task.args.message, task.args.chain_id)
      [] task.kind = "addTransaction" ->
            IF outcome = "rejected" THEN <<EvUnhandledRejection(task.kind)>> ELSE <<>>
      [] OTHER -> IF outcome = "rejected" THEN CatchHandler(task) ELSE <<>>

Without(seq, i) == SubSeq(seq, 1, i - 1) \o SubSeq(seq, i + 1, Len(seq))

\* a started task settles and its continuation runs
Settle(i, outcome) ==
    /\ i \in 1..Len(tasks)
    /\ outcome \in Outcomes(tasks[i])
    /\ log' = log \o <<EvSettled(tasks[i].kind, outcome)>>
                   \o TaskEvents(tasks[i], outcome, Env)
    /\ tasks' = Without(tasks, i) \o Launched(TaskEvents(tasks[i], outcome, Env))
    /\ UNCHANGED <<instance, activeNet, selectedAddress, call, queue, op>>

\* the continuation without its test of the callback
BrowserContinuation_AlwaysNavigate(c, st) ==
    <<EvNavigate(st.navigation, "Routes.BROWSER.HOME",
                 [screen |-> "Routes.BROWSER.VIEW", newTabUrl |-> c.url])>>

\* the continuation _handleBrowserUrl gave to runAfterInteractions
BrowserContinuation(c, st) ==
    IF c.callback THEN <<EvBrowserCallBack(c.url)>>
    ELSE <<EvNavigate(st.navigation, "Routes.BROWSER.HOME",
                      [screen |-> "Routes.BROWSER.VIEW", newTabUrl |-> c.url])>>

\* the interactions are over: InteractionManager runs its oldest continuation
RunAfterInteractions ==
    /\ queue # <<>>
    /\ log' = log \o BrowserContinuation(Head(queue), Env)
    /\ queue' = Tail(queue)
    /\ UNCHANGED <<instance, activeNet, selectedAddress, call, tasks, op>>

\* the call under observation is over, nothing it started is left: the
\* record of it is dropped
Forget ==
    /\ call.made
    /\ tasks = <<>>
    /\ queue = <<>>
    /\ call' = NoCall
    /\ log' = <<>>
    /\ op' = NoOp
    /\ UNCHANGED <<instance, activeNet, selectedAddress, tasks, queue>>

\* One deeplink at a time: init once, route, let what was started finish.
Next ==
    \/ \E n \in {"h1"}, d \in {"h2"} : ~instance.made /\ SharedInit(n, d)
    \/ \E u \in Urls, o \in Options : ~call.made /\ Parse(u, o)
    \/ \E i \in 1..Len(tasks) : \E x \in Outcomes(tasks[i]) : Settle(i, x)
    \/ RunAfterInteractions
    \/ Forget

Spec == Init /\ [][Next]_vars

\* The shared instance and its pending slot, with routing in between.
NextStore ==
    \/ \E n \in Handles, d \in Handles : SharedInit(n, d)
    \/ \E u \in StagedUrls : SetDeeplink(u)
    \/ GetPendingDeeplink
    \/ ExpireDeeplink
    \/ \E u \in StoreUrls, o \in StoreOptions : ~call.made /\ Parse(u, o)
    \/ \E i \in 1..Len(tasks) : \E x \in Outcomes(tasks[i]) : Settle(i, x)
    \/ RunAfterInteractions
    \/ Forget

SpecStore == Init /\ [][NextStore]_vars

\* Calls of parse that overlap: a call is made while what earlier calls
\* started is still pending, and the pending tasks settle in any order.
MaxCalls == 2
ConcUrls ==
    {MkUrl(Https(<<UL, "/", Actions.ANDROID_SDK>>), NoQuery),
     MkUrl(Https(<<UL, "/", Actions.CONNECT>>), Q(Undef, Undef, "abc", "xyz")),
     MkUrl(SchemeToken(PROTOCOLS.WC) \o <<"session">>, NoQuery),
     MkUrl(<<PROTOCOLS.DAPP, "://", "example.com">>, NoQuery),
     MkUrl(SchemeToken(PROTOCOLS.ETHEREUM) \o <<"0xRECIPIENT", "/", "approve">>,
           EQ("0xSPENDER", "12", Undef))}
\* every call of this specification supplies onHandled, so the calls on
\* record are the onHandled events of the log
ConcOptions == [browserCallBack : {FALSE}, origin : {"qr-code"}, onHandled : {TRUE}]
CallsOnRecord == Count(log, "onHandled")

NextConc ==
    \/ \E n \in {"h1"}, d \in {"h2"} : ~instance.made /\ SharedInit(n, d)
    \/ \E u \in ConcUrls, o \in ConcOptions : CallsOnRecord < MaxCalls /\ Parse(u, o)
    \/ \E i \in 1..Len(tasks) : \E x \in Outcomes(tasks[i]) : Settle(i, x)
    \/ RunAfterInteractions
    \/ Forget

SpecConc == Init /\ [][NextConc]_vars

\* ================================================================ claims
\* the schemes parse has a case for
RecognizedSchemes ==
    {PROTOCOLS.HTTP, PROTOCOLS.HTTPS, PROTOCOLS.WC, PROTOCOLS.ETHEREUM, PROTOCOLS.DAPP,
     PROTOCOLS.METAMASK}
HasRecognizedScheme(url) ==
    /\ Len(url.body) >= 2
    /\ url.body[2] \in {":", "://"}
    /\ url.body[1] \in RecognizedSchemes

IsWeb(url) ==
    /\ Len(url.body) >= 2
    /\ url.body[1] \in {PROTOCOLS.HTTP, PROTOCOLS.HTTPS}
    /\ url.body[2] = "://"
IsUniversal(url) == IsWeb(url) /\ Len(url.body) >= 3 /\ url.body[3] = UL
\* the action token of a universal link: the token after the host and a "/"
ActionToken(url) ==
    IF Len(url.body) >= 5 /\ url.body[4] = "/" /\ url.body[5] # "/"
       /\ (Len(url.body) = 5 \/ url.body[6] = "/")
    THEN url.body[5] ELSE ""
ProtocolTableKeys == {Actions.DAPP, Actions.SEND, Actions.APPROVE, Actions.PAYMENT}

\* C1: route returns true exactly for the URLs of a recognized scheme, and
\* false only for an unrecognized one.
C1_ReturnsTrueIffRecognized ==
    call.made =>
        /\ (call.ret = "true") <=> HasRecognizedScheme(call.url)
        /\ (call.ret = "false") => ~HasRecognizedScheme(call.url)

\* the payment URI a call hands to _handleEthereumUrl: the URL itself, or
\* what the loop-back makes of a universal link; NoUrl when there is none
NoUrl == MkUrl(<<>>, NoQuery)
IsPayment(url) == StartsWith(url.body, SchemeToken(PROTOCOLS.ETHEREUM))
PaymentUri(url) ==
    IF IsPayment(url) THEN url
    ELSE IF /\ StartsWith(url.body, DEEP_LINK_BASE \o <<"/">>)
            /\ Len(url.body) >= 6
            /\ url.body[5] \in {Actions.SEND, Actions.APPROVE, Actions.PAYMENT}
            /\ url.body[6] = "/"
    THEN [url EXCEPT !.body = SchemeToken(PROTOCOLS.ETHEREUM) \o SubSeq(url.body, 7, Len(url.body))]
    ELSE NoUrl
\* the call under observation handles a payment URI that decodes
Pays == call.made /\ PaymentUri(call.url) # NoUrl /\ EthParse(PaymentUri(call.url)).ok
Intent == EthParse(PaymentUri(call.url))
\* everything the call started has finished
Settled == call.made /\ tasks = <<>> /\ queue = <<>>

Events(name) == {log[i] : i \in IndicesOf(log, name)}

\* C2: a payment URI for the active network causes no provider switch and
\* no network-change warning, whatever its function name; one for another
\* known network causes exactly one switch and one warning naming it.
C2_NetworkGuardCounts ==
    (Pays /\ getNetworkTypeById(Intent.chain_id) # Undef) =>
        IF getNetworkTypeById(Intent.chain_id) = call.net
        THEN Count(log, "setProviderType") = 0 /\ Count(log, "showAlert") = 0
        ELSE /\ Count(log, "setProviderType") = 1
             /\ Count(log, "showAlert") = 1
             /\ \A e \in Events("showAlert") : e.b = getNetworkTypeById(Intent.chain_id)

\* the approve amount is an integer for Number()
Approves == Pays /\ Intent.function_name = ETH_ACTIONS.APPROVE
AmountIsInteger == NumberOf(Intent.parameters.uint256).kind = "int"
GuardPasses ==
    ~Truthy(Intent.chain_id) \/ getNetworkTypeById(Intent.chain_id) # Undef
SubmitsTheApprove ==
    /\ Count(log, "addTransaction") = 1
    /\ \A e \in Events("addTransaction") :
          /\ e.a.value = "0x0"
          /\ e.a.to = Intent.target_address
          /\ e.a.from = selectedAddress

\* C3 as stated: an approve whose uint256 is no integer submits nothing and
\* navigates nowhere; one whose uint256 is an integer submits exactly one
\* transaction, of value zero, to the target, from the selected account.
C3_ApproveAsStated ==
    Approves =>
        IF AmountIsInteger
        THEN Count(log, "addTransaction") <= 1 /\ (Settled => SubmitsTheApprove)
        ELSE Count(log, "addTransaction") = 0 /\ Count(log, "navigate") = 0

\* C3 amended: as stated, for an integer amount provided the network guard
\* does not fail (the chain id is absent or that of a known network); when
\* the guard fails nothing is submitted.
C3_ApproveValidation ==
    Approves =>
        IF AmountIsInteger /\ GuardPasses
        THEN Count(log, "addTransaction") <= 1 /\ (Settled => SubmitsTheApprove)
        ELSE /\ Count(log, "addTransaction") = 0
             /\ (~AmountIsInteger => Count(log, "navigate") = 0)

\* an approve with an integer amount has run to its end and submitted
C3_Witness ==
    /\ Approves /\ AmountIsInteger /\ Settled
    /\ Truthy(Intent.chain_id)
    /\ Count(log, "addTransaction") = 1

\* the universal links the rewrite branch takes
IsRewriteInput(url) == IsUniversal(url) /\ ActionToken(url) \in ProtocolTableKeys

\* C4: for a universal link whose first path segment is a key of the
\* ProtocolTable, with or without a slash after it, the loop-back ends: parse
\* returns, having called itself once and no more.
C4_LoopBackTerminates ==
    (call.made /\ IsRewriteInput(call.url)) =>
        call.ret # "RangeError" /\ call.depth <= 1

\* an operation of SharedDeeplinkManager has just been carried out
Did(name) == op' # op /\ op'.name = name

\* C5: setDeeplink stores its argument over whatever was staged,
\* expireDeeplink empties the slot, getPendingDeeplink returns what the slot
\* holds (null before any set and after an expire) without changing it, and
\* nothing else changes the slot.
C5_PendingSlot ==
    [][/\ Did("setDeeplink") => instance'.pendingDeeplink = op'.arg
       /\ Did("expireDeeplink") => instance'.pendingDeeplink = Null
       /\ Did("getPendingDeeplink") =>
             op'.res = instance.pendingDeeplink /\ instance' = instance
       /\ (~instance.made /\ instance'.made) => instance'.pendingDeeplink = Null
       /\ (instance.made /\ ~Did("setDeeplink") /\ ~Did("expireDeeplink")) =>
             instance'.pendingDeeplink = instance.pendingDeeplink]_vars

\* a get has returned a staged URL
C5_Witness ==
    /\ op.name = "getPendingDeeplink"
    /\ op.res \in StagedUrls
    /\ instance.pendingDeeplink = op.res

\* the events onHandled has to come before: all but the alert of the query
\* decoder, which precedes the dispatch
IsDispatchEffect(e) ==
    /\ e.ev # "onHandled"
    /\ ~(e.ev = "Alert.alert" /\ e.a = "deeplink.invalid" /\ e.b = <<"query">>)

\* C6: a call with onHandled and a URL of a recognized scheme invokes
\* onHandled exactly once, the loop-back included, and before any effect of
\* the dispatch; for an unrecognized scheme it is not invoked.
C6_OnHandledOnce ==
    call.made =>
        IF HasRecognizedScheme(call.url) /\ call.opts.onHandled
        THEN /\ Count(log, "onHandled") = 1
             /\ \A i \in 1..Len(log) :
                   IsDispatchEffect(log[i]) => \E j \in 1..(i - 1) : log[j].ev = "onHandled"
        ELSE Count(log, "onHandled") = 0

\* the loop-back has run for a call with onHandled, and has had effects
C6_Witness ==
    /\ call.made /\ call.opts.onHandled /\ call.depth = 1
    /\ Count(log, "onHandled") = 1
    /\ Len(log) >= 2

IsUniversalConnect(url) ==
    IsUniversal(url) /\ ActionToken(url) = Actions.CONNECT /\ ~url.qbad
Handshakes == {e \in Events("launch") : e.a = "handleDeeplink"}

\* C7: a universal link with the action connect: with a redirect parameter,
\* one return to the previous app and no handshake, a channel id or not; else
\* with a channel id, one handshake with that channel id, the pubkey of the
\* URL and the context deeplink_universal; else nothing.  parse returns true.
C7_UniversalConnect ==
    (call.made /\ IsUniversalConnect(call.url)) =>
        LET q == call.url.q
        IN  /\ call.ret = "true"
            /\ IF Truthy(q.redirect)
               THEN Count(log, "Minimizer.goBack") = 1 /\ Count(log, "launch") = 0
               ELSE IF Truthy(q.channelId)
               THEN /\ Count(log, "Minimizer.goBack") = 0
                    /\ Count(log, "launch") = 1
                    /\ \A e \in Events("launch") :
                          /\ e.a = "handleDeeplink"
                          /\ e.b.channelId = q.channelId
                          /\ e.b.otherPublicKey = q.pubkey
                          /\ e.b.context = "deeplink_universal"
               ELSE Count(log, "Minimizer.goBack") = 0 /\ Count(log, "launch") = 0

\* a connect link with both a redirect and a channel id has been routed
C7_WitnessRedirect ==
    /\ call.made /\ IsUniversalConnect(call.url)
    /\ Truthy(call.url.q.redirect) /\ Truthy(call.url.q.channelId)
    /\ Count(log, "Minimizer.goBack") = 1

\* a connect link with a channel id and a pubkey has started the handshake
C7_Witness ==
    /\ call.made /\ IsUniversalConnect(call.url)
    /\ ~Truthy(call.url.q.redirect) /\ call.url.q.pubkey = "xyz"
    /\ Handshakes # {}

\* the universal-link root, with or without its slash, and the app-store link
IsRootOrStoreLink(url) ==
    /\ QueryLength(url.q) = 0
    /\ url.body \in {DEEP_LINK_BASE, DEEP_LINK_BASE \o <<"/">>, MM_DEEP_ITMS_APP_LINK_BODY}

\* C8: for the universal-link root or the app-store link, parse returns true,
\* navigates nowhere, enqueues no browser navigation and raises no alert.
C8_RootIgnored ==
    (call.made /\ IsRootOrStoreLink(call.url)) =>
        /\ call.ret = "true"
        /\ Count(log, "navigate") = 0
        /\ Count(log, "runAfterInteractions") = 0
        /\ Count(log, "browserCallBack") = 0
        /\ Count(log, "Alert.alert") = 0

\* C9: once the shared instance exists, init changes nothing of it: the
\* instance, its handles and the pending slot stay, whatever handles the later
\* init is given, and navigation keeps using the handle of the first init.
C9_InitIdempotent ==
    [][instance.made =>
         /\ instance'.made
         /\ instance'.navigation = instance.navigation
         /\ instance'.dispatch = instance.dispatch
         /\ Did("init") => instance' = instance
         /\ \A i \in 1..Len(log') :
               log'[i].ev = "navigate" => log'[i].c = instance.navigation]_vars

\* a later init with other handles has been made while a URL was staged
C9_Witness ==
    /\ instance.made
    /\ op.name = "init"
    /\ op.arg # instance.navigation
    /\ op.arg2 # instance.dispatch
    /\ instance.pendingDeeplink # Null

\* what getAddress resolved to in the call under observation
Resolutions == {e.b : e \in {x \in Events("settled") : x.a = "getAddress"}}
WalletHomeNavigations == {i \in IndicesOf(log, "navigate") : log[i].a = "WalletView"}

\* C10: an approve with an integer amount whose spender does not resolve
\* gives one invalid-recipient notification and one navigation to the wallet
\* home view and then still submits one transaction; with a spender that
\* resolves it gives neither, and submits one transaction.
C10_LenientRecipient ==
    (Approves /\ AmountIsInteger /\ GuardPasses /\ Settled) =>
        /\ Cardinality(Resolutions) = 1
        /\ Count(log, "addTransaction") = 1
        /\ IF \E r \in Resolutions : ~Truthy(r)
           THEN /\ Count(log, "showSimpleNotification") = 1
                /\ Cardinality(WalletHomeNavigations) = 1
                /\ \A i \in IndicesOf(log, "showSimpleNotification") \cup WalletHomeNavigations :
                      \A j \in IndicesOf(log, "addTransaction") : i < j
           ELSE /\ Count(log, "showSimpleNotification") = 0
                /\ Cardinality(WalletHomeNavigations) = 0
                /\ \A e \in Events("addTransaction") : e.a.data.spender \in Resolutions

\* the lookup of a spender name has failed and the approve has been submitted
C10_Witness ==
    /\ Approves /\ AmountIsInteger /\ Settled
    /\ Intent.parameters.address = "spender.eth"
    /\ Resolutions = {Null}
    /\ Count(log, "addTransaction") = 1

\* ------------------------------------------------------------------ C11
\* the action of a metamask:// URL: the token after the prefix, "wc" also
\* for the form with a slash before it; "" when it is none of the four
SchemeActions == {Actions.ANDROID_SDK, Actions.CONNECT, Actions.WC, Actions.BUY_CRYPTO}
SchemeAction(url) ==
    LET b == url.body
        P == PREFIXES_METAMASK
    IN  IF ~StartsWith(b, P) \/ Len(b) = Len(P) THEN ""
        ELSE IF b[Len(P) + 1] \in SchemeActions THEN b[Len(P) + 1]
        ELSE IF Len(b) >= Len(P) + 2 /\ b[Len(P) + 1] = "/" /\ b[Len(P) + 2] = Actions.WC
        THEN Actions.WC
        ELSE ""
\* the universal link of the same action and query
UniversalTwin(url) == MkUrl(DEEP_LINK_BASE \o <<"/", SchemeAction(url)>>, url.q)
\* what parse gives for the universal link, from the state the call started in
TwinResult == parse(UniversalTwin(call.url), call.opts, [Env EXCEPT !.net = call.net],
                    MaxStack)
\* the call under observation is of a metamask:// URL of one of the four
\* actions and nothing it started has settled
SchemeCall == call.made /\ SchemeAction(call.url) # "" /\ Count(log, "settled") = 0

\* two invocations are the same: the same collaborator with the same
\* arguments.  The url a handshake is given is the URL routed, which the two
\* schemes cannot share; withContext tells whether the context is compared.
SameInvocation(e, f, withContext) ==
    /\ e.ev = f.ev
    /\ IF e.ev # "launch" THEN e = f
       ELSE /\ e.a = f.a
            /\ CASE e.a = "handleDeeplink" ->
                      /\ e.b.channelId = f.b.channelId
                      /\ e.b.origin = f.b.origin
                      /\ e.b.otherPublicKey = f.b.otherPublicKey
                      /\ withContext => e.b.context = f.b.context
                 [] e.a = "wcConnect" ->
                      /\ e.b.wcUri = f.b.wcUri
                      /\ e.b.origin = f.b.origin
                      /\ e.b.redirectUrl = f.b.redirectUrl
                 [] OTHER -> e.b = f.b
SameInvocations(l, m, withContext) ==
    /\ Len(l) = Len(m)
    /\ \A i \in 1..Len(l) : SameInvocation(l[i], m[i], withContext)

WcLaunches(l) == SelectSeq(l, LAMBDA e : e.ev = "launch" /\ e.a = "wcConnect")
Contexts(l) ==
    {l[i].b.context : i \in {j \in 1..Len(l) : l[j].ev = "launch" /\ l[j].a = "handleDeeplink"}}

C12_NoUriNoConnect ==
    (call.made /\ IsUniversal(call.url) /\ ActionToken(call.url) = Actions.WC
        /\ ~Truthy(call.url.q.uri)) =>
        /\ Len(WcLaunches(log)) = 0
        /\ Count(log, "navigate") = 0
        /\ Count(log, "Alert.alert") = 0

\* ------------------------------------------------------------------ C13
\* the places in the log of the events of a name, and of the launches of a kind
LaunchIndices(kind) == {i \in IndicesOf(log, "launch") : log[i].a = kind}
GuardIndices == IndicesOf(log, "_handleNetworkSwitch")
LaterActionIndices ==
    IndicesOf(log, "navigate") \cup IndicesOf(log, "showSimpleNotification")
        \cup LaunchIndices("getAddress") \cup IndicesOf(log, "addTransaction")

\* C13: handling a decoded payment URI with a chain id, the network guard is
\* over before any navigation, notification, address resolution or
\* transaction submission, no provider switch happens after the guard has
\* returned, and if the guard fails none of the later actions happens.
C13_GuardFirst ==
    (Pays /\ Truthy(Intent.chain_id)) =>
        /\ Cardinality(GuardIndices) = 1
        /\ \A g \in GuardIndices :
              /\ \A i \in LaterActionIndices : g < i
              /\ \A i \in IndicesOf(log, "setProviderType") : i < g
              /\ log[g].b # "" => LaterActionIndices = {}

\* ------------------------------------------------------------------ C14
\* the errors raised while the call under observation handled its payment
\* URI: the guard failed, _approveTransaction threw, a submission failed
GuardFailures == {i \in GuardIndices : log[i].b # ""}
ApproveFailures == LaunchIndices("awaitRejected")
SubmissionFailures ==
    {i \in IndicesOf(log, "settled") : log[i].a = "addTransaction" /\ log[i].b = "rejected"}
ErrorsRaised == GuardFailures \cup ApproveFailures \cup SubmissionFailures
NetworkAlerts ==
    {i \in IndicesOf(log, "Alert.alert") : log[i].a = "send.network_not_found_title"}

\* C14: every error raised while handling a decoded payment URI (a failing
\* guard, a failing approve validation, a failing transaction submission) is
\* caught in the handler and shown as exactly one alert, with the
\* missing-network-id message exactly when that is the error and otherwise
\* the network-not-found message with the chain id; none is left unhandled.
C14_EveryErrorOneAlert ==
    (Pays /\ Settled) =>
        /\ Count(log, "unhandledRejection") = 0
        /\ Cardinality(NetworkAlerts) = Cardinality(ErrorsRaised)
        /\ \A i \in NetworkAlerts :
              IF \E g \in GuardFailures :
                    log[g].b = NetworkSwitchErrorType.missingNetworkId
              THEN log[i].b = <<"send.network_missing_id">>
              ELSE log[i].b = <<"send.network_not_found_description", Intent.chain_id>>

\* ------------------------------------------------------------------ C15
\* the call under observation handles a payment URI that does not decode
FailsToDecode ==
    call.made /\ PaymentUri(call.url) # NoUrl /\ ~EthParse(PaymentUri(call.url)).ok

\* C15: when the payment URI does not decode, the handler shows exactly one
\* alert, the invalid-link one, and stops: the network guard is not called,
\* no provider is switched, nothing is navigated, started or submitted.
C15_DecodeFailureStops ==
    FailsToDecode =>
        /\ Count(log, "Alert.alert") = 1
        /\ \A e \in Events("Alert.alert") : e.a = "deeplink.invalid"
        /\ GuardIndices = {}
        /\ Count(log, "setProviderType") = 0
        /\ Count(log, "showAlert") = 0
        /\ Count(log, "navigate") = 0
        /\ Count(log, "showSimpleNotification") = 0
        /\ Count(log, "launch") = 0
        /\ Count(log, "addTransaction") = 0
        /\ tasks = <<>>

\* a payment URI that does not decode has been handled and the alert shown
C15_Witness ==
    /\ FailsToDecode
    /\ \E e \in Events("Alert.alert") : e.a = "deeplink.invalid"

\* ------------------------------------------------------------------ C16
PairingKinds == {"bindAndroidSDK", "handleDeeplink", "wcConnect"}
LogSinks == {"Logger.error", "console.warn"}
\* this step settles a task: the log has one more "settled" event
SettlesATask == Count(log', "settled") = Count(log, "settled") + 1
\* the events the step adds to the log
Added == SubSeq(log', Len(log) + 1, Len(log'))

\* C16: parse does not wait for what it starts.  A task settling, however
\* it ends and whichever call started it, changes neither the value parse
\* returned nor anything parse did before returning; a pairing bind,
\* handshake or connect that fails is logged and nothing else: no alert, no
\* navigation, and one that succeeds does nothing.
C16_FireAndForget ==
    [][SettlesATask =>
          /\ call' = call
          /\ op' = op
          /\ activeNet' = activeNet
          /\ Len(log') > Len(log) /\ SubSeq(log', 1, Len(log)) = log
          /\ Added[1].ev = "settled"
          /\ Added[1].a \in PairingKinds =>
                /\ tasks' \in {Without(tasks, i) : i \in 1..Len(tasks)}
                /\ queue' = queue
                /\ IF Added[1].b = "rejected"
                   THEN Len(Added) = 2 /\ Added[2].ev \in LogSinks
                   ELSE Len(Added) = 1]_vars

\* a pairing bind started by one call has failed after a second call was
\* made, while another task is still pending
C16_Witness ==
    /\ call.made
    /\ tasks # <<>>
    /\ \E k \in IndicesOf(log, "settled") :
          /\ log[k].a = "bindAndroidSDK"
          /\ log[k].b = "rejected"
          /\ Cardinality({j \in IndicesOf(log, "onHandled") : j < k}) = 2
          /\ k < Len(log) /\ log[k + 1].ev = "Logger.error"

\* ------------------------------------------------------------------ C17
\* the URLs parse resolves to a browser navigation: a web URL of another
\* host, a universal link with an action parse does not know, a dapp:// URL
IsDapp(url) ==
    Len(url.body) >= 2 /\ url.body[1] = PROTOCOLS.DAPP /\ url.body[2] = "://"
IsBrowserUrl(url) ==
    \/ IsDapp(url)
    \/ (IsWeb(url) /\ ~IsUniversal(url))
    \/ /\ IsUniversal(url)
       /\ ActionToken(url) \notin {""} \cup SchemeActions \cup ProtocolTableKeys
       /\ ~IsRootOrStoreLink(url)
BrowserNavigations ==
    {i \in IndicesOf(log, "navigate") : log[i].a = "Routes.BROWSER.HOME"}
BrowserRuns == IndicesOf(log, "browserCallBack") \cup BrowserNavigations

\* C17: when parse resolves a URL to a browser navigation it enqueues exactly
\* one continuation and returns with nothing navigated; the continuation
\* stays enqueued until it runs, and it runs once: it calls browserCallBack
\* with the URL when one was given, and navigates to the browser view with
\* the URL otherwise.
C17_BrowserDeferred ==
    (call.made /\ IsBrowserUrl(call.url)) =>
        /\ Count(log, "runAfterInteractions") = 1
        /\ \A e \in IndicesOf(log, "runAfterInteractions") :
              IF queue # <<>>
              THEN /\ queue = <<[url |-> log[e].a, callback |-> log[e].b]>>
                   /\ BrowserRuns = {}
                   /\ Count(log, "navigate") = 0
              ELSE /\ Cardinality(BrowserRuns) = 1
                   /\ Count(log, "navigate") = Cardinality(BrowserNavigations)
                   /\ \A r \in BrowserRuns :
                         /\ e < r
                         /\ IF call.opts.browserCallBack
                            THEN log[r].ev = "browserCallBack" /\ log[r].a = log[e].a
                            ELSE log[r].ev = "navigate" /\ log[r].b.newTabUrl = log[e].a

\* a browser navigation has been deferred and has then called browserCallBack
C17_Witness ==
    /\ call.made /\ IsBrowserUrl(call.url) /\ IsUniversal(call.url)
    /\ call.opts.browserCallBack
    /\ queue = <<>>
    /\ Count(log, "browserCallBack") = 1

\* ------------------------------------------------------------------ C18
\* the values the pending slot takes, and what the handlers would read of
\* the instance had the slot the value v
SlotValues == StagedUrls \cup {Null}
EnvWithSlot(v) ==
    LET inst == setDeeplink(instance, v)
    IN  [net |-> activeNet, navigation |-> inst.navigation,
         dispatch |-> inst.dispatch, selectedAddress |-> selectedAddress]
\* this step is a call of parse; this step continues what a call started
IsParseStep == ~call.made /\ call'.made
IsContinuationStep == call.made /\ call'.made /\ log' # log

C19_SessionUriRewritten ==
    (call.made /\ SchemeAction(call.url) = Actions.WC /\ ~Truthy(call.url.q.uri)) =>
        /\ Len(WcLaunches(log)) = 1
        /\ LET wcUri == WcLaunches(log)[1].b.wcUri
           IN  /\ StartsWith(wcUri.body, <<Actions.WC>>)
               /\ ~StartsWith(wcUri.body, PREFIXES_METAMASK)

\* ------------------------------------------------------------------ C20
\* the navigations to the send views, and the starts of the approve path
\* (the approve reaching its await, or throwing before it)
SendNavigations ==
    {i \in IndicesOf(log, "navigate") : log[i].a \in {"SendView", "SendFlowView"}}
ApproveStarts == LaunchIndices("getAddress") \cup LaunchIndices("awaitRejected")
CarriesTheIntent(i) ==
    log[i].b.txMeta = [ethUrl |-> Intent, source |-> PaymentUri(call.url)]

\* C20: a payment URI that decodes and whose guard does not fail gets one
\* terminal action by its function name.  transfer: one navigation, to the
\* send view with action send-token.  approve: the approve path and no
\* navigation to a send view.  Any other or no function name: one
\* navigation, to the send view with action send-eth when the value parameter
\* is given and to the choose-recipient view otherwise, and no alert.  Every
\* such navigation carries the decoded URI and the URI as it was handed in.
C20_OneTerminalAction ==
    (Pays /\ GuardPasses) =>
        /\ \A i \in SendNavigations : CarriesTheIntent(i)
        /\ CASE Intent.function_name = ETH_ACTIONS.TRANSFER ->
                  /\ Count(log, "navigate") = 1
                  /\ \A i \in IndicesOf(log, "navigate") :
                        log[i].a = "SendView" /\ log[i].b.action = "send-token"
                  /\ ApproveStarts = {}
                  /\ Count(log, "Alert.alert") = 0
             [] Intent.function_name = ETH_ACTIONS.APPROVE ->
                  /\ SendNavigations = {}
                  /\ Cardinality(ApproveStarts) = 1
             [] OTHER ->
                  /\ Count(log, "navigate") = 1
                  /\ \A i \in IndicesOf(log, "navigate") :
                        IF Truthy(Intent.parameters.value)
                        THEN log[i].a = "SendView" /\ log[i].b.action = "send-eth"
                        ELSE log[i].a = "SendFlowView" /\ log[i].b.action = Undef
                  /\ ApproveStarts = {}
                  /\ Count(log, "Alert.alert") = 0
                  /\ Count(log, "unhandledRejection") = 0

\* a payment URI with an unknown function name and a value has been sent to
\* the native-asset send view, on a network the guard switched to
C20_Witness ==
    /\ Pays /\ GuardPasses
    /\ Intent.function_name \notin {ETH_ACTIONS.TRANSFER, ETH_ACTIONS.APPROVE, Undef}
    /\ Truthy(Intent.parameters.value)
    /\ Count(log, "setProviderType") = 1
    /\ \E i \in SendNavigations : log[i].b.action = "send-eth" /\ CarriesTheIntent(i)

====
